---- MODULE Spec2Model ----
(***************************************************************************)
(* Model of the Group09 negotiation agent (Group09_Agent.py) and of its    *)
(* acceptance strategy (utils/acceptance_condition.py).                    *)
(*                                                                         *)
(* Numbers.  Utilities, targets and scores are exact rationals <<n, d>>    *)
(* with d > 0, kept in lowest terms: a utility <<n, d>> stands for the     *)
(* float nearest to n/d, and distinct utilities of a profile are distinct  *)
(* floats in the same order.  The acceptance statistics add and divide     *)
(* floats, and identical bids bring their average next to their maximum,   *)
(* so total_utility_received and the acceptance threshold are computed in  *)
(* IEEE 754 arithmetic (see "Python's floats").  Bids are indices          *)
(* 1..Len(AllBids) into the enumeration of the bid space, 0 standing for   *)
(* Python's None.                                                          *)
(* One protocol event is handled atomically: every progress reading taken  *)
(* while one event is handled returns the same value, now / ClockSteps;    *)
(* readings never decrease from one event to the next.                     *)
(***************************************************************************)
EXTENDS Integers, Sequences, FiniteSets, TLC

\* ------------------------------------------------------------------ bounds
\* The progress clock reads k / ClockSteps, k \in 0..ClockSteps.
ClockSteps == 5
\* At most MaxOffers opponent offers and MaxActions own actions per session.
MaxOffers == 2
MaxActions == 2
\* At most MaxLog entries in bid_history.
MaxLog == 3
\* Opponent offers in a long session.
LongOffers == 3
\* Opponent offers in a session in which the agent only observes.
MaxObserved == 4

\* ---------------------------------------------------------------- rationals
RECURSIVE GCD(_, _)
GCD(a, b) == IF b = 0 THEN a ELSE GCD(b, a % b)

Abs(x) == IF x < 0 THEN -x ELSE x

\* n/d in lowest terms, positive denominator (d # 0).
Rat(n, d) ==
    LET s == IF d < 0 THEN -1 ELSE 1
        g == GCD(Abs(n), Abs(d))
    IN  <<(s * n) \div g, (s * d) \div g>>

Zero == <<0, 1>>
One == <<1, 1>>
RAdd(a, b) == Rat(a[1] * b[2] + b[1] * a[2], a[2] * b[2])
RSub(a, b) == Rat(a[1] * b[2] - b[1] * a[2], a[2] * b[2])
RMul(a, b) == Rat(a[1] * b[1], a[2] * b[2])
\* a / b, for b # 0.
RDiv(a, b) == Rat(a[1] * b[2], a[2] * b[1])
RLeq(a, b) == a[1] * b[2] <= b[1] * a[2]
RLess(a, b) == a[1] * b[2] < b[1] * a[2]
RAbs(a) == <<Abs(a[1]), a[2]>>
RMax(a, b) == IF RLeq(a, b) THEN b ELSE a

\* ------------------------------------------------- naturals beyond 32 bits
\* score_bid raises the progress to the 10th power; its products do not fit
\* TLC's integers.  A natural is a little-endian sequence of limbs < Limb.
Limb == 10 ^ 4

RECURSIVE BigNorm(_, _)
\* limbs: sequence of naturals (possibly >= Limb); carry: natural.
BigNorm(limbs, carry) ==
    IF limbs = <<>>
    THEN IF carry = 0 THEN <<>> ELSE <<carry % Limb>> \o BigNorm(<<>>, carry \div Limb)
    ELSE LET v == Head(limbs) + carry
         IN  <<v % Limb>> \o BigNorm(Tail(limbs), v \div Limb)

RECURSIVE BigTrim(_)
BigTrim(x) == IF x # <<>> /\ x[Len(x)] = 0 THEN BigTrim(SubSeq(x, 1, Len(x) - 1)) ELSE x

BigOf(n) == BigTrim(BigNorm(<<n>>, 0))
\* x * k for a natural k < 100000.
BigTimes(x, k) == BigTrim(BigNorm([i \in 1..Len(x) |-> x[i] * k], 0))
BigPlus(x, y) ==
    LET n == IF Len(x) > Len(y) THEN Len(x) ELSE Len(y)
        at(s, i) == IF i <= Len(s) THEN s[i] ELSE 0
    IN  BigTrim(BigNorm([i \in 1..n |-> at(x, i) + at(y, i)], 0))

RECURSIVE BigLess(_, _)
BigLess(x, y) ==
    IF Len(x) # Len(y) THEN Len(x) < Len(y)
    ELSE IF x = <<>> THEN FALSE
    ELSE IF x[Len(x)] # y[Len(y)] THEN x[Len(x)] < y[Len(y)]
    ELSE BigLess(SubSeq(x, 1, Len(x) - 1), SubSeq(y, 1, Len(y) - 1))

\* ------------------------------------------------------ Python's floats
\* evaluate_bid returns float(score) and the acceptance statistics add and
\* divide floats: IEEE 754 binary64, round to nearest, ties to even.  A float
\* is <<m, e>>, standing for m * 2^e with 2^52 <= m < 2^53 (m a natural in
\* limbs), or float_zero.  The definitions here round as the interpreter
\* does.
RECURSIVE ShiftLeft(_, _)
\* m * 2^k in limbs, 13 bits at a time.
ShiftLeft(m, k) ==
    IF k < 14 THEN BigTimes(m, 2 ^ k) ELSE BigTimes(ShiftLeft(m, k - 13), 2 ^ 13)
MantissaMin == ShiftLeft(<<1>>, 52)
MantissaLimit == ShiftLeft(<<1>>, 53)

RECURSIVE BigDivMod(_, _)
\* Quotient (limbs, untrimmed) and remainder of x by k, 0 < k < 10^5.
BigDivMod(x, k) ==
    IF x = <<>>
    THEN [q |-> <<>>, r |-> 0]
    ELSE LET hi == BigDivMod(Tail(x), k)
             t  == Limb * hi.r + Head(x)
         IN  [q |-> <<t \div k>> \o hi.q, r |-> t % k]

\* The float nearest to quotient * 2^e, the quotient being N / d with
\* remainder r and 2^52 <= quotient < 2^53: ties go to the even mantissa.
RoundedMantissa(quotient, r, d, e) ==
    LET up == 2 * r > d \/ (2 * r = d /\ quotient[1] % 2 = 1)
        m  == IF up THEN BigPlus(quotient, BigOf(1)) ELSE quotient
    IN  IF m = MantissaLimit THEN <<MantissaMin, e + 1>> ELSE <<m, e>>

\* N * 2^k is still below 2^52 * d.
Below(N, d, k) == BigLess(ShiftLeft(N, k), BigTimes(MantissaMin, d))
RECURSIVE UpShift(_, _, _, _)
\* The least k' >= k with N * 2^k' >= 2^52 * d, every shift below k being
\* too small: searched step shifts at a time, then one at a time.
UpShift(N, d, k, step) ==
    IF Below(N, d, k + step - 1) THEN UpShift(N, d, k + step, step)
    ELSE IF step = 1 THEN k
    ELSE UpShift(N, d, k, 1)
RECURSIVE DownShift(_, _, _)
\* The least j' >= j with N < 2^53 * d * 2^j'.
DownShift(N, d, j) ==
    IF BigLess(N, BigTimes(MantissaLimit, d * 2 ^ j)) THEN j ELSE DownShift(N, d, j + 1)

\* The float nearest to (N / d) * 2^e, for a natural N > 0 in limbs and a
\* natural d > 0: N and d are scaled by powers of 2 until the quotient has
\* 53 bits, and the quotient is rounded.
Scaled(N, d, e, k, j) ==
    RoundedMantissa(BigTrim(BigDivMod(ShiftLeft(N, k), d * 2 ^ j).q),
                    BigDivMod(ShiftLeft(N, k), d * 2 ^ j).r, d * 2 ^ j, e - k + j)
RoundToFloat(N, d, e) == Scaled(N, d, e, UpShift(N, d, 0, 8), DownShift(N, d, 0))

float_zero == <<<<>>, 0>>
\* x is a float: zero or a 53-bit mantissa with its exponent.
IsFloat(x) ==
    x = float_zero \/ (~BigLess(x[1], MantissaMin) /\ BigLess(x[1], MantissaLimit))
\* float(x) of an exact rational 0 <= x.
float(x) == IF x[1] = 0 THEN float_zero ELSE RoundToFloat(BigOf(x[1]), x[2], 0)

\* x < y for floats x, y >= 0.
float_less(x, y) ==
    IF y = float_zero THEN FALSE
    ELSE IF x = float_zero THEN TRUE
    ELSE IF x[2] # y[2] THEN x[2] < y[2]
    ELSE BigLess(x[1], y[1])
float_leq(x, y) == ~float_less(y, x)

\* x + y for floats x, y >= 0.
float_add(x, y) ==
    IF x = float_zero THEN y
    ELSE IF y = float_zero THEN x
    ELSE IF x[2] >= y[2]
    THEN RoundToFloat(BigPlus(ShiftLeft(x[1], x[2] - y[2]), y[1]), 1, y[2])
    ELSE RoundToFloat(BigPlus(ShiftLeft(y[1], y[2] - x[2]), x[1]), 1, x[2])
\* x / n for a float x >= 0 and an integer n > 0.
float_div(x, n) == IF x = float_zero THEN float_zero ELSE RoundToFloat(x[1], n, x[2])

\* -------------------------------------------------------------------- domain
\* The domain of the session: issues, each with its values, and the bid
\* space in the order AllBidsList enumerates it (first issue fastest).
None == 0
Issues == <<"price", "delivery">>
Values == [price |-> <<"low", "mid", "high">>, delivery |-> <<"fast", "slow">>]

AllBids ==
    [k \in 1..(Len(Values.price) * Len(Values.delivery)) |->
        [price    |-> Values.price[((k - 1) % Len(Values.price)) + 1],
         delivery |-> Values.delivery[((k - 1) \div Len(Values.price)) + 1]]]

Bids == 1..Len(AllBids)
BidOf(p, d) == CHOOSE k \in Bids : AllBids[k] = [price |-> p, delivery |-> d]

\* The linear additive profiles a session may be given: issue weights and
\* value utilities.  Scenario is the profile of the design's worked example;
\* Dense has two bids within 0.05 of utility 1; Modest has no bid above 0.75
\* and its first enumerated bid has utility 0.
Profiles == <<
    [weights |-> [price |-> <<7, 10>>, delivery |-> <<3, 10>>],
     values  |-> [low |-> One, mid |-> <<1, 2>>, high |-> Zero,
                  fast |-> One, slow |-> Zero]],
    [weights |-> [price |-> <<9, 10>>, delivery |-> <<1, 10>>],
     values  |-> [low |-> One, mid |-> <<35, 36>>, high |-> Zero,
                  fast |-> One, slow |-> Zero]],
    [weights |-> [price |-> <<1, 2>>, delivery |-> <<1, 2>>],
     values  |-> [low |-> Zero, mid |-> <<1, 2>>, high |-> One,
                  fast |-> Zero, slow |-> <<1, 2>>]] >>

\* -------------------------------------------------------------------- state
VARIABLES
    profile,                    \* self.profile: 0 before Settings, else an index of Profiles
    clock,                      \* the last reading of the progress clock, in 1/ClockSteps
    last_received_bid,          \* self.last_received_bid
    last_sent_bid,              \* self.last_sent_bid
    opponent_model,             \* self.opponent_model
    bid_history,                \* self.bid_history
    use_average,                \* acceptance_condition.use_average
    max_utility_received,       \* acceptance_condition.max_utility_received
    total_utility_received,     \* acceptance_condition.total_utility_received
    number_of_bids_received,    \* acceptance_condition.number_of_bids_received
    last_predicted_bid_utility, \* acceptance_condition.last_predicted_bid_utility, <<>> for None
    sent,                       \* the actions handed to send_action, in order
    status,                     \* "running", "raised" (a handler raised) or "terminated"
    received,                   \* history: the bids of the opponent's offers, in order
    ac_call,                    \* history: the last should_accept call
    turn                        \* history: the last my_turn call

vars == <<profile, clock, last_received_bid, last_sent_bid, opponent_model, bid_history,
          use_average, max_utility_received, total_utility_received,
          number_of_bids_received, last_predicted_bid_utility, sent, status,
          received, ac_call, turn>>

\* ------------------------------------------------------------ configuration
\* self.T, the time after which the acceptance condition becomes lenient.
T == <<4, 5>>
\* self.mu, the reserve.
mu == <<4, 5>>
\* tolerance of find_bid.
tolerance == <<1, 20>>
\* alpha and 1 / eps of score_bid.
alpha == <<19, 20>>
inv_eps == 10

\* ---------------------------------------------------------- self utility
\* evaluate_bid: the profile's utility of a bid, as a float.
evaluate_bid(bid) ==
    LET P == Profiles[profile]
        b == AllBids[bid]
    IN  RAdd(RMul(P.weights.price, P.values[b.price]),
             RMul(P.weights.delivery, P.values[b.delivery]))

\* calculate_progress: the progress of the negotiation, 0 (start) to 1 (end).
calculate_progress(now) == Rat(now, ClockSteps)

\* --------------------------------------------------------- opponent model
IssueSet == {Issues[i] : i \in 1..Len(Issues)}
ValueSet(i) == {Values[i][k] : k \in 1..Len(Values[i])}

\* self.opponent_model = None.
NoModel ==
    [created |-> FALSE,
     counts  |-> [i \in IssueSet |-> [v \in ValueSet(i) |-> 0]],
     last    |-> [i \in IssueSet |-> "none"],
     changes |-> [i \in IssueSet |-> 0]]

\* OpponentModel(domain): one estimator per issue, nothing observed.
OpponentModel == [NoModel EXCEPT !.created = TRUE]

\* OpponentModel.update(bid): per issue, count the value, count a change
\* when the previous value differs, remember the value.
update(m, bid) ==
    LET b == AllBids[bid]
    IN  [m EXCEPT
            !.counts  = [i \in IssueSet |-> [m.counts[i] EXCEPT ![b[i]] = @ + 1]],
            !.changes = [i \in IssueSet |->
                            IF m.last[i] # "none" /\ m.last[i] # b[i]
                            THEN m.changes[i] + 1 ELSE m.changes[i]],
            !.last    = [i \in IssueSet |-> b[i]]]

RECURSIVE SumCounts(_, _, _)
SumCounts(m, i, k) == IF k = 0 THEN 0 ELSE m.counts[i][Values[i][k]] + SumCounts(m, i, k - 1)
\* Number of bids the estimator of issue i has observed.
observed(m, i) == SumCounts(m, i, Len(Values[i]))

RECURSIVE SumInverse(_, _)
SumInverse(m, k) ==
    IF k = 0 THEN Zero ELSE RAdd(Rat(1, 1 + m.changes[Issues[k]]), SumInverse(m, k - 1))
weight_unnormalised(m, i) == Rat(1, 1 + m.changes[i])
\* Estimated weight of issue i: 1 / (1 + change count), normalised over the issues.
weight(m, i) == RDiv(Rat(1, 1 + m.changes[i]), SumInverse(m, Len(Issues)))

share_of_all_issues(m, i, v) ==
    IF observed(m, i) = 0 THEN Rat(1, Len(Values[i]))
    ELSE Rat(Len(Issues) * m.counts[i][v], observed(m, i))
\* Value preference: the value's share of the issue's observations; uniform
\* over the issue's values while nothing has been observed.
share(m, i, v) ==
    IF observed(m, i) = 0 THEN Rat(1, Len(Values[i]))
    ELSE Rat(m.counts[i][v], observed(m, i))

RECURSIVE SumPredicted(_, _, _)
SumPredicted(m, b, k) ==
    IF k = 0 THEN Zero
    ELSE RAdd(RMul(weight(m, Issues[k]), share(m, Issues[k], b[Issues[k]])),
              SumPredicted(m, b, k - 1))
\* OpponentModel.get_predicted_utility(bid).
get_predicted_utility(m, bid) == SumPredicted(m, AllBids[bid], Len(Issues))

\* ------------------------------------------------------ counter-offer search
\* get_target_utility, with self.last_sent_bid = lsb.  raised: the division
\* by own_utility raised ZeroDivisionError.
concede(opponent_utility, own_utility) ==
    IF own_utility = Zero
    THEN [raised |-> TRUE, value |-> Zero]
    ELSE [raised |-> FALSE,
          value  |-> RAdd(own_utility,
                          RMul(RDiv(RSub(One, mu), own_utility),
                               RSub(opponent_utility, own_utility)))]
get_target_utility(lsb) ==
    IF lsb = None \/ last_received_bid = None
    THEN [raised |-> FALSE, value |-> One]
    ELSE concede(get_predicted_utility(opponent_model, last_received_bid), evaluate_bid(lsb))

AllBidsList == [k \in Bids |-> k]
\* A profile whose domain has no bid (an issue without values).
EmptyDomain == Len(Profiles) + 1
\* The bids of the loaded profile's domain.
DomainBids == IF profile = EmptyDomain THEN {} ELSE Bids
\* all_bids = AllBidsList(self.domain) of find_bid.
all_bids == IF profile = EmptyDomain THEN <<>> ELSE AllBidsList

within_band(target) ==
    SelectSeq(all_bids, LAMBDA b : RLeq(RAbs(RSub(evaluate_bid(b), target)), tolerance))
at_least(target) ==
    SelectSeq(all_bids, LAMBDA b : RLeq(target, evaluate_bid(b)))

\* candidate_bids of find_bid, before it is sorted: the bids near the
\* target, else those at or above it, else the whole bid space.
first_non_empty_of_two(near, above, all) ==
    IF near # <<>> THEN near ELSE above
first_non_empty_near_or_all(near, above, all) ==
    IF near # <<>> THEN near ELSE all
first_non_empty(near, above, all) ==
    IF near # <<>> THEN near ELSE IF above # <<>> THEN above ELSE all
candidate_bids(target) == first_non_empty(within_band(target), at_least(target), all_bids)

\* compute_similarity(bid1, bid2): the share of issues with equal values.
compute_similarity(bid1, bid2) ==
    Rat(Cardinality({i \in IssueSet : AllBids[bid1][i] = AllBids[bid2][i]}), Len(Issues))

\* score_bid(bid), as the pair <<N, d>> standing for N / (E * d), E being
\* alpha's denominator times the 10th power of the progress' denominator.
\* (A / E) * our_utility + ((E - A) / E) * opponent_utility, as <<N, d>>.
blend(A, E, our_utility, opponent_utility) ==
    <<BigPlus(BigTimes(BigTimes(BigOf(A), our_utility[1]), opponent_utility[2]),
              BigTimes(BigTimes(BigOf(E - A), opponent_utility[1]), our_utility[2])),
      our_utility[2] * opponent_utility[2]>>
\* alpha * time_pressure = A / E at the given progress.
score_at(progress, our_utility, opponent_utility) ==
    blend(alpha[1] * (progress[2] ^ inv_eps - progress[1] ^ inv_eps),
          alpha[2] * progress[2] ^ inv_eps, our_utility, opponent_utility)
score_bid(bid, now) ==
    score_at(calculate_progress(now), evaluate_bid(bid),
             IF opponent_model.created THEN get_predicted_utility(opponent_model, bid)
             ELSE Zero)

ScoreLess(s1, s2) == BigLess(BigTimes(s1[1], s2[2]), BigTimes(s2[1], s1[2]))

\* key(b1) < key(b2) under the sort key find_bid uses.
KeyLess(b1, b2, now) ==
    IF last_received_bid # None
    THEN RLess(compute_similarity(b1, last_received_bid),
               compute_similarity(b2, last_received_bid))
    ELSE ScoreLess(score_bid(b1, now), score_bid(b2, now))

\* A sort that is not stable: the last candidate no other candidate's key
\* exceeds.
top_ranked_last_of_equals(cands, now) ==
    cands[CHOOSE k \in 1..Len(cands) :
            /\ \A j \in 1..Len(cands) : ~KeyLess(cands[k], cands[j], now)
            /\ \A j \in (k + 1)..Len(cands) : KeyLess(cands[j], cands[k], now)]

\* candidate_bids.sort(key, reverse=True)[0]: the sort is stable, so this is
\* the first candidate no other candidate's key exceeds.
top_ranked(cands, now) ==
    cands[CHOOSE k \in 1..Len(cands) :
            /\ \A j \in 1..Len(cands) : ~KeyLess(cands[k], cands[j], now)
            /\ \A j \in 1..(k - 1) : KeyLess(cands[j], cands[k], now)]

\* candidate_bids[0] after the sort: IndexError when there is no candidate.
ranked(target, cands, now) ==
    IF cands = <<>>
    THEN [raised |-> TRUE, target |-> target, bid |-> None]
    ELSE [raised |-> FALSE, target |-> target, bid |-> top_ranked(cands, now)]
\* find_bid, with self.last_sent_bid = lsb.  It returns bid and leaves
\* self.last_sent_bid = bid.
search(target_utility, now) ==
    IF target_utility.raised
    THEN [raised |-> TRUE, target |-> Zero, bid |-> None]
    ELSE ranked(target_utility.value, candidate_bids(target_utility.value), now)
find_bid(lsb, now) == search(get_target_utility(lsb), now)

\* ------------------------------------------------------ acceptance condition
\* The running statistics of the AcceptanceCondition object.
Stats ==
    [max_utility_received    |-> max_utility_received,
     total_utility_received  |-> total_utility_received,
     number_of_bids_received |-> number_of_bids_received]

update_received_bid_utility_last(st, bid_utility) ==
    [max_utility_received    |-> bid_utility,
     total_utility_received  |-> float_add(st.total_utility_received, float(bid_utility)),
     number_of_bids_received |-> st.number_of_bids_received + 1]
\* update_received_bid_utility without the increment of the count.
update_received_bid_utility_uncounted(st, bid_utility) ==
    [max_utility_received    |-> RMax(st.max_utility_received, bid_utility),
     total_utility_received  |-> float_add(st.total_utility_received, float(bid_utility)),
     number_of_bids_received |-> st.number_of_bids_received]
\* update_received_bid_utility(bid_utility), applied to the statistics st.
update_received_bid_utility(st, bid_utility) ==
    [max_utility_received    |-> RMax(st.max_utility_received, bid_utility),
     total_utility_received  |-> float_add(st.total_utility_received, float(bid_utility)),
     number_of_bids_received |-> st.number_of_bids_received + 1]

\* The division without its guard: no float results when the count is 0.
get_acceptance_threshold_unguarded(st) ==
    IF use_average
    THEN IF st.number_of_bids_received = 0 THEN <<BigOf(0), -1>>
         ELSE float_div(st.total_utility_received, st.number_of_bids_received)
    ELSE float(st.max_utility_received)
\* get_acceptance_threshold(), read from the statistics st: a float.
get_acceptance_threshold(st) ==
    IF use_average /\ st.number_of_bids_received > 0
    THEN float_div(st.total_utility_received, st.number_of_bids_received)
    ELSE float(st.max_utility_received)

accept_decision_and(next_condition_met, time_condition_met, const_condition_met) ==
    next_condition_met /\ (time_condition_met /\ const_condition_met)
accept_decision_late(next_condition_met, time_condition_met, const_condition_met) ==
    time_condition_met /\ const_condition_met
\* accept_decision of should_accept.
accept_decision(next_condition_met, time_condition_met, const_condition_met) ==
    next_condition_met \/ (time_condition_met /\ const_condition_met)

\* The time condition with progress >= T.
time_condition_met_from_T(progress) == RLeq(T, progress)
\* time_condition_met = progress > self.T
time_condition_met(progress) == RLess(T, progress)

decide_refreshing(bid_utility, st, progress, fb) ==
    IF fb.raised
    THEN [raised |-> TRUE, ret |-> FALSE, stats |-> st,
          cache |-> last_predicted_bid_utility, lsb |-> last_sent_bid, found |-> TRUE]
    ELSE [raised |-> FALSE,
          ret    |-> accept_decision(RLeq(evaluate_bid(fb.bid), bid_utility),
                                     time_condition_met(progress),
                                     float_leq(get_acceptance_threshold(st), float(bid_utility))),
          stats  |-> st, cache |-> evaluate_bid(fb.bid), lsb |-> fb.bid, found |-> TRUE]
\* Steps 3 to 6 of should_accept, the statistics st being updated: fb is what
\* find_bid() gives when the cache is empty.
decide(bid_utility, st, progress, fb) ==
    IF last_predicted_bid_utility = <<>> /\ fb.raised
    THEN [raised |-> TRUE, ret |-> FALSE, stats |-> st,
          cache |-> last_predicted_bid_utility, lsb |-> last_sent_bid, found |-> TRUE]
    ELSE IF last_predicted_bid_utility = <<>>
    THEN [raised |-> FALSE,
          ret    |-> accept_decision(RLeq(evaluate_bid(fb.bid), bid_utility),
                                     time_condition_met(progress),
                                     float_leq(get_acceptance_threshold(st), float(bid_utility))),
          stats  |-> st, cache |-> evaluate_bid(fb.bid), lsb |-> fb.bid, found |-> TRUE]
    ELSE [raised |-> FALSE,
          ret    |-> accept_decision(RLeq(last_predicted_bid_utility, bid_utility),
                                     time_condition_met(progress),
                                     float_leq(get_acceptance_threshold(st), float(bid_utility))),
          stats  |-> st, cache |-> last_predicted_bid_utility, lsb |-> last_sent_bid,
          found  |-> FALSE]

\* Steps 1 and 2 of should_accept for a bid of utility bid_utility.
evaluate_offer(bid_utility, now) ==
    decide(bid_utility, update_received_bid_utility(Stats, bid_utility),
           calculate_progress(now), find_bid(last_sent_bid, now))

should_accept_counting_absent(bid, now) ==
    IF bid = None
    THEN [raised |-> FALSE, ret |-> FALSE,
          stats |-> [Stats EXCEPT !.number_of_bids_received = @ + 1],
          cache |-> last_predicted_bid_utility, lsb |-> last_sent_bid, found |-> FALSE]
    ELSE evaluate_offer(evaluate_bid(bid), now)
\* should_accept(bid): what it returns (ret) or that it raised, and what it
\* leaves in the statistics, in last_predicted_bid_utility (cache) and in the
\* agent's last_sent_bid (lsb); found: it called find_bid.
should_accept(bid, now) ==
    IF bid = None
    THEN [raised |-> FALSE, ret |-> FALSE, stats |-> Stats,
          cache |-> last_predicted_bid_utility, lsb |-> last_sent_bid, found |-> FALSE]
    ELSE evaluate_offer(evaluate_bid(bid), now)

\* ------------------------------------------------------------------ logging
\* log_bid(bid, actor, actionType): the opponent model and the history it leaves.
log_entry(model, history, bid, actor, actionType) ==
    [model   |-> model,
     history |-> Append(history,
                    [type |-> actionType, actor |-> actor,
                     utility_self |-> evaluate_bid(bid),
                     utility_opponent |-> get_predicted_utility(model, bid)])]
log_bid_no_create(m, history, bid, actor, actionType) ==
    log_entry(m, history, bid, actor, actionType)
\* log_bid installing a new model at every call.
log_bid_recreating(m, history, bid, actor, actionType) ==
    log_entry(OpponentModel, history, bid, actor, actionType)
log_bid(m, history, bid, actor, actionType) ==
    log_entry(IF m.created THEN m ELSE OpponentModel, history, bid, actor, actionType)

\* What is known of the last YourTurn before any was handled.
NoTurn == [kind |-> "none", evaluated |-> FALSE, target |-> Zero, first |-> FALSE]

\* --------------------------------------------------------------------- Init
\* The agent after __init__; the session's use_average is either mode.
Init ==
    /\ profile = 0
    /\ clock = 0
    /\ last_received_bid = None
    /\ last_sent_bid = None
    /\ opponent_model = NoModel
    /\ bid_history = <<>>
    /\ use_average \in BOOLEAN
    /\ max_utility_received = Zero
    /\ total_utility_received = float_zero
    /\ number_of_bids_received = 0
    /\ last_predicted_bid_utility = <<>>
    /\ sent = <<>>
    /\ status = "running"
    /\ received = <<>>
    /\ ac_call = [called |-> FALSE, bid |-> None, progress |-> Zero, ret |-> FALSE,
                  raised |-> FALSE, found |-> FALSE,
                  stats_before |-> [max_utility_received |-> Zero,
                                    total_utility_received |-> float_zero,
                                    number_of_bids_received |-> 0],
                  cache_before |-> <<>>, lsb_before |-> None]
    /\ turn = NoTurn

Running == status = "running" /\ profile # 0

\* The record of a should_accept(bid) call that gave r.
CallRecord(bid, r, now) ==
    [called |-> TRUE, bid |-> bid, progress |-> calculate_progress(now), ret |-> r.ret,
     raised |-> r.raised, found |-> r.found, stats_before |-> Stats,
     cache_before |-> last_predicted_bid_utility, lsb_before |-> last_sent_bid]

HasOffer(actions) == \E k \in 1..Len(actions) : actions[k].kind = "Offer"
HasAccept(actions) == \E k \in 1..Len(actions) : actions[k].kind = "Accept"

\* ------------------------------------------------------------------- events
\* notifyChange(Settings): the profile and its domain are loaded.
Settings(p) ==
    /\ status = "running"
    /\ profile = 0
    /\ profile' = p
    /\ UNCHANGED <<clock, last_received_bid, last_sent_bid, opponent_model, bid_history,
                   use_average, max_utility_received, total_utility_received,
                   number_of_bids_received, last_predicted_bid_utility, sent, status,
                   received, ac_call, turn>>

opponent_action_new_bids_only(m, h, kind, bid) ==
    IF kind = "Offer"
    THEN [last_received_bid |-> bid] @@
         log_bid(IF bid = last_received_bid THEN m
                 ELSE update(IF m.created THEN m ELSE OpponentModel, bid),
                 h, bid, "other", "Offer")
    ELSE [model |-> m, last_received_bid |-> last_received_bid, history |-> h]
opponent_action_fresh_model(m, h, kind, bid) ==
    IF kind = "Offer"
    THEN [last_received_bid |-> bid] @@
         log_bid(update(OpponentModel, bid), h, bid, "other", "Offer")
    ELSE [model |-> m, last_received_bid |-> last_received_bid, history |-> h]
\* opponent_action without the isinstance(action, Offer) test.
opponent_action_any_kind(m, h, kind, bid) ==
    [last_received_bid |-> bid] @@
    log_bid(update(IF m.created THEN m ELSE OpponentModel, bid), h, bid, "other", "Offer")
\* opponent_action(action): the opponent model, last_received_bid and the
\* history it leaves, from the model m and the history h.
opponent_action(m, h, kind, bid) ==
    IF kind = "Offer"
    THEN [last_received_bid |-> bid] @@
         log_bid(update(IF m.created THEN m ELSE OpponentModel, bid), h, bid, "other", "Offer")
    ELSE [model |-> m, last_received_bid |-> last_received_bid, history |-> h]

\* The ActionDone branch handing the agent's own actions to opponent_action
\* as well.
dispatch_own_action_too(logged, actor, kind, bid) ==
    opponent_action(logged.model, logged.history, kind, bid)
\* The ActionDone branch of notifyChange after the Accept was logged.
dispatch(logged, actor, kind, bid) ==
    IF actor # "me"
    THEN opponent_action(logged.model, logged.history, kind, bid)
    ELSE [model |-> logged.model, last_received_bid |-> last_received_bid,
          history |-> logged.history]

Leaves(after) ==
    /\ opponent_model' = after.model
    /\ last_received_bid' = after.last_received_bid
    /\ bid_history' = after.history

\* notifyChange(ActionDone(action)), action being kind(actor, bid).
action_done(actor, kind, bid) ==
    /\ Running
    /\ Leaves(dispatch(IF kind = "Accept"
                       THEN log_bid(opponent_model, bid_history, bid, actor, "Accept")
                       ELSE [model |-> opponent_model, history |-> bid_history],
                       actor, kind, bid))
    /\ received' = IF actor # "me" /\ kind = "Offer" THEN Append(received, bid) ELSE received
    /\ UNCHANGED <<profile, clock, last_sent_bid, use_average, max_utility_received,
                   total_utility_received, number_of_bids_received,
                   last_predicted_bid_utility, sent, status, ac_call, turn>>
\* An ActionDone event while the log is short of MaxLog entries.
ActionDone(actor, kind, bid) == Len(bid_history) < MaxLog /\ action_done(actor, kind, bid)

TurnRecord(kind, target) ==
    [kind |-> kind, evaluated |-> last_received_bid # None, target |-> target,
     first |-> ~HasOffer(sent)]

\* The else branch of my_turn: log and send the bid found.
offer(bid, target, logged) ==
    /\ last_sent_bid' = bid
    /\ opponent_model' = logged.model
    /\ bid_history' = logged.history
    /\ sent' = Append(sent, [kind |-> "Offer", bid |-> bid])
    /\ turn' = TurnRecord("offer", target)
    /\ UNCHANGED status

\* The else branch of my_turn, fb being what find_bid() gives.
counter_offer(sa, fb) ==
    /\ last_predicted_bid_utility' = sa.cache
    /\ IF fb.raised
       THEN /\ status' = "raised"
            /\ last_sent_bid' = sa.lsb
            /\ turn' = TurnRecord("raised", Zero)
            /\ UNCHANGED <<sent, opponent_model, bid_history>>
       ELSE offer(fb.bid, fb.target,
                  log_bid(opponent_model, bid_history, fb.bid, "me", "Offer"))

\* my_turn, sa being what should_accept(self.last_received_bid) gives when
\* there is a last received bid.
decide_turn(sa, now) ==
    /\ max_utility_received' = sa.stats.max_utility_received
    /\ total_utility_received' = sa.stats.total_utility_received
    /\ number_of_bids_received' = sa.stats.number_of_bids_received
    /\ ac_call' = IF last_received_bid # None THEN CallRecord(last_received_bid, sa, now)
                  ELSE ac_call
    /\ IF sa.raised
       THEN /\ status' = "raised"
            /\ turn' = TurnRecord("raised", Zero)
            /\ UNCHANGED <<last_sent_bid, last_predicted_bid_utility, sent,
                           opponent_model, bid_history>>
       ELSE IF last_received_bid # None /\ sa.ret
       THEN /\ sent' = Append(sent, [kind |-> "Accept", bid |-> last_received_bid])
            /\ last_sent_bid' = sa.lsb
            /\ last_predicted_bid_utility' = sa.cache
            /\ turn' = TurnRecord("accept", Zero)
            /\ UNCHANGED <<status, opponent_model, bid_history>>
       ELSE counter_offer(sa, find_bid(sa.lsb, now))

\* my_turn, on notifyChange(YourTurn), the progress clock reading now.
your_turn(now) ==
    /\ Running
    /\ clock <= now
    /\ clock' = now
    /\ decide_turn(should_accept(last_received_bid, now), now)
    /\ UNCHANGED <<profile, last_received_bid, use_average, received>>
\* A YourTurn event while the agent has sent fewer than MaxActions actions.
my_turn(now) == Len(sent) < MaxActions /\ your_turn(now)

\* A Finished handler that clears the trace once it is saved.
Finished_clearing_trace ==
    /\ Running
    /\ status' = "terminated"
    /\ bid_history' = <<>>
    /\ UNCHANGED <<profile, clock, last_received_bid, last_sent_bid, opponent_model,
                   use_average, max_utility_received, total_utility_received,
                   number_of_bids_received, last_predicted_bid_utility, sent,
                   received, ac_call, turn>>
\* notifyChange(Finished): save_data, then the party terminates.
Finished ==
    /\ Running
    /\ status' = "terminated"
    /\ UNCHANGED <<profile, clock, last_received_bid, last_sent_bid, opponent_model,
                   bid_history, use_average, max_utility_received, total_utility_received,
                   number_of_bids_received, last_predicted_bid_utility, sent,
                   received, ac_call, turn>>

\* notifyChange of any other Inform: a warning is logged.
Unknown ==
    /\ Running
    /\ UNCHANGED vars

\* The opponent offers bid.
OpponentOffer(bid) ==
    bid \in DomainBids /\ Len(received) < MaxOffers /\ ActionDone("other", "Offer", bid)
\* The opponent accepts the agent's last offer.
OpponentAccept ==
    /\ sent # <<>> /\ sent[Len(sent)].kind = "Offer"
    /\ ActionDone("other", "Accept", sent[Len(sent)].bid)
\* The runner reports the agent's own last action.
OwnActionDone ==
    /\ sent # <<>>
    /\ ActionDone("me", sent[Len(sent)].kind, sent[Len(sent)].bid)

Next ==
    \/ \E p \in 1..Len(Profiles) : Settings(p)
    \/ \E b \in Bids : OpponentOffer(b)
    \/ OpponentAccept
    \/ OwnActionDone
    \/ \E now \in 0..ClockSteps : my_turn(now)
    \/ Finished
    \/ Unknown

Spec == Init /\ [][Next]_vars

\* A caller other than my_turn applies should_accept to an absent bid.
call_should_accept_none(now) ==
    /\ Running
    /\ clock <= now
    /\ clock' = now
    /\ max_utility_received' = should_accept(None, now).stats.max_utility_received
    /\ total_utility_received' = should_accept(None, now).stats.total_utility_received
    /\ number_of_bids_received' = should_accept(None, now).stats.number_of_bids_received
    /\ last_predicted_bid_utility' = should_accept(None, now).cache
    /\ last_sent_bid' = should_accept(None, now).lsb
    /\ ac_call' = CallRecord(None, should_accept(None, now), now)
    /\ UNCHANGED <<profile, last_received_bid, opponent_model, bid_history, use_average,
                   sent, status, received, turn>>

NextAPI ==
    \/ Next
    \/ \E now \in 0..ClockSteps : call_should_accept_none(now)

\* The agent together with direct callers of its acceptance condition.
SpecAPI == Init /\ [][NextAPI]_vars

\* A session in which the opponent makes up to LongOffers offers and the
\* runner delivers nothing but Settings, those offers and YourTurn.
OfferInLongSession(bid) ==
    bid \in DomainBids /\ Len(received) < LongOffers /\ action_done("other", "Offer", bid)

NextLong ==
    \/ \E p \in 1..Len(Profiles) : Settings(p)
    \/ \E b \in Bids : OfferInLongSession(b)
    \/ \E now \in 0..ClockSteps : my_turn(now)

SpecLong == Init /\ [][NextLong]_vars

\* A session in which the agent is never given the turn: after Settings it
\* only observes the opponent's offers, up to MaxObserved of them.
ObservedOffer(bid) ==
    bid \in DomainBids /\ Len(received) < MaxObserved /\ action_done("other", "Offer", bid)

NextObserve ==
    \/ \E p \in 1..Len(Profiles) : Settings(p)
    \/ \E b \in Bids : ObservedOffer(b)

SpecObserve == Init /\ [][NextObserve]_vars

\* A session whose turns strictly alternate: the runner gives the agent the
\* turn after each opponent offer (and before the first one when the agent
\* moves first), and delivers nothing after the agent's Accept.
AgentMovedFirst == bid_history # <<>> /\ bid_history[1].actor = "me"
OfferDue ==
    IF AgentMovedFirst THEN Len(sent) = Len(received) + 1 ELSE Len(sent) = Len(received)
TurnDue ==
    IF AgentMovedFirst THEN Len(sent) = Len(received)
    ELSE Len(received) = Len(sent) + 1 \/ (received = <<>> /\ sent = <<>>)
AlternatingOffer(bid) ==
    /\ bid \in DomainBids /\ Len(received) < MaxOffers
    /\ ~HasAccept(sent) /\ OfferDue
    /\ action_done("other", "Offer", bid)
AlternatingTurn(now) == ~HasAccept(sent) /\ TurnDue /\ my_turn(now)

NextAlternate ==
    \/ \E p \in 1..Len(Profiles) : Settings(p)
    \/ \E b \in Bids : AlternatingOffer(b)
    \/ \E now \in 0..ClockSteps : AlternatingTurn(now)

SpecAlternate == Init /\ [][NextAlternate]_vars

\* The strictly alternating session with up to LongOffers offers and turns.
AlternatingLongOffer(bid) ==
    /\ bid \in DomainBids /\ Len(received) < LongOffers
    /\ ~HasAccept(sent) /\ OfferDue
    /\ action_done("other", "Offer", bid)
AlternatingLongTurn(now) ==
    Len(sent) < LongOffers /\ ~HasAccept(sent) /\ TurnDue /\ your_turn(now)

NextAlternateLong ==
    \/ \E p \in 1..Len(Profiles) : Settings(p)
    \/ \E b \in Bids : AlternatingLongOffer(b)
    \/ \E now \in 0..ClockSteps : AlternatingLongTurn(now)

SpecAlternateLong == Init /\ [][NextAlternateLong]_vars

\* Settings may also carry a profile over an empty domain: notifyChange
\* loads it like any other.
NextSetup ==
    \/ Next
    \/ \E p \in {EmptyDomain} : Settings(p)

\* The agent in sessions that may also be set up over an empty domain.
SpecSetup == Init /\ [][NextSetup]_vars

\* =================================================================== claims
\* The statistics a should_accept call left behind stay until the next call,
\* and the cache never changes once filled, so a claim about the last call
\* reads them from the current state.
LastBidUtility == evaluate_bid(ac_call.bid)
Returned == ac_call.called /\ ac_call.bid # None /\ ~ac_call.raised
AC_next == RLeq(last_predicted_bid_utility, LastBidUtility)
AC_time == RLess(T, ac_call.progress)
AC_const ==
    IF use_average
    THEN float_leq(float_div(total_utility_received, number_of_bids_received),
                   float(LastBidUtility))
    ELSE RLeq(max_utility_received, LastBidUtility)

\* C1: for a non-null bid, should_accept returns true if and only if AC_next
\* holds or both AC_time and AC_const hold, AC_next comparing the bid's
\* utility with the cached predicted-next-offer utility, AC_time being
\* progress > T, AC_const comparing the bid's utility with the running
\* average (AVERAGE mode) or the running max (MAX mode).
AcceptIffNextOrTimeAndConst ==
    Returned => (ac_call.ret <=> (AC_next \/ (AC_time /\ AC_const)))
\* should_accept accepted a bid below the predicted next offer, late.
LateAcceptBelowNext == Returned /\ ac_call.ret /\ ~AC_next /\ AC_time /\ AC_const

\* A step in which my_turn ran: it sent an action or it raised.
TurnStep == Len(sent') # Len(sent) \/ (status = "running" /\ status' = "raised")

\* C2: every YourTurn makes the agent emit exactly one action: an Accept of
\* last_received_bid, only after an opponent offer was received and
\* should_accept returned true, or else an Offer of the bid that is
\* last_sent_bid after the turn.
EveryTurnEmitsOneAction ==
    [][TurnStep =>
        /\ Len(sent') = Len(sent) + 1
        /\ sent'[Len(sent')].kind = "Accept" =>
              /\ sent'[Len(sent')].bid = last_received_bid
              /\ received # <<>>
              /\ ac_call'.called /\ ac_call'.ret
        /\ sent'[Len(sent')].kind = "Offer" => sent'[Len(sent')].bid = last_sent_bid'
      ]_vars

\* C3: should_accept(None) returns false and changes nothing: the running
\* max, sum and count and the cached predicted utility are as before the
\* call, and find_bid is not called.
AbsentBidRejectedUntouched ==
    (ac_call.called /\ ac_call.bid = None) =>
        /\ ~ac_call.ret /\ ~ac_call.raised /\ ~ac_call.found
        /\ Stats = ac_call.stats_before
        /\ last_predicted_bid_utility = ac_call.cache_before
\* should_accept(None) was called after an offer arrived, the cache empty.
AbsentBidCallWithEmptyCache ==
    /\ ac_call.called /\ ac_call.bid = None
    /\ received # <<>> /\ last_predicted_bid_utility = <<>>

\* The target utilities 0, 0.05, ..., 1.
Targets == {Rat(k, 20) : k \in 0..20}

\* C4: with a profile loaded, for every target utility in [0, 1], whatever
\* last_received_bid is, the candidate list of find_bid is not empty and the
\* bid find_bid picks from it is a bid of the domain.
SearchAlwaysFindsADomainBid ==
    profile # 0 =>
        \A target \in Targets :
            /\ candidate_bids(target) # <<>>
            /\ top_ranked(candidate_bids(target), clock) \in Bids
\* find_bid offered a bid although no bid is near or above its target.
OfferFromWholeBidSpace ==
    /\ turn.kind = "offer"
    /\ within_band(turn.target) = <<>> /\ at_least(turn.target) = <<>>
    /\ sent[Len(sent)].bid \in Bids

\* C5: a YourTurn never aborts: computing the target utility, searching a
\* bid and evaluating acceptance never raise.
TurnNeverRaises == status # "raised"

\* C6: should_accept returns true for every bid of self-utility 1, at every
\* progress, in both threshold modes, also in the call that fills the cache.
FullUtilityBidAccepted ==
    (ac_call.called /\ ac_call.bid # None /\ LastBidUtility = One) =>
        ~ac_call.raised /\ ac_call.ret
\* A bid of utility 1 was accepted before T by the call that filled the cache.
FullUtilityBidAcceptedEarly ==
    /\ Returned /\ LastBidUtility = One /\ ac_call.ret
    /\ ac_call.found /\ ~AC_time

\* C7: the opponent model has been updated once per opponent offer received
\* (every issue's estimator has observed as many bids as offers arrived), and
\* last_received_bid is the bid of the most recent of them.
ModelUpdatedOncePerOffer ==
    /\ \A i \in IssueSet : observed(opponent_model, i) = Len(received)
    /\ last_received_bid = IF received = <<>> THEN None ELSE received[Len(received)]
\* The same bid was offered twice in a row.
SameBidOfferedTwice ==
    /\ Len(received) >= 2
    /\ received[Len(received)] = received[Len(received) - 1]
    /\ last_received_bid = received[Len(received)]

\* C8: once the agent has emitted an Accept it emits no further action,
\* whatever events follow.
AcceptIsTerminal == [][HasAccept(sent) => sent' = sent]_vars

\* C10: the bid the agent proposes while it has not yet emitted any Offer is
\* selected with target utility 1.
FirstOfferTargetsOne == (turn.kind = "offer" /\ turn.first) => turn.target = One

\* C11: over the successive turns of a session the target utility of
\* get_target_utility never rises: an offering turn's target is at most the
\* target of the offering turn before it.
TargetNeverRises ==
    [][(Len(sent') # Len(sent) /\ turn.kind = "offer" /\ turn'.kind = "offer")
          => RLeq(turn'.target, turn.target)]_vars

\* The last evaluated bid's utility is at least the aggregate of the bids
\* evaluated before it: their average in AVERAGE mode, their maximum in MAX
\* mode (nothing to compare with when it is the first).
AtLeastEarlier ==
    IF use_average
    THEN \/ ac_call.stats_before.number_of_bids_received = 0
         \/ float_leq(float_div(ac_call.stats_before.total_utility_received,
                                ac_call.stats_before.number_of_bids_received),
                      float(LastBidUtility))
    ELSE RLeq(ac_call.stats_before.max_utility_received, LastBidUtility)

\* C12: when progress > T, a bid whose utility is at least the aggregate of
\* the bids evaluated before it is accepted even if AC_next is false; and
\* comparing the bid with the statistics that include it (what the code does)
\* is equivalent to comparing it with the statistics of the earlier bids.
LateBidAtLeastEarlierAccepted ==
    Returned =>
        /\ float_leq(get_acceptance_threshold(Stats), float(LastBidUtility)) <=> AtLeastEarlier
        /\ (AC_time /\ AtLeastEarlier) => ac_call.ret

\* C13: get_acceptance_threshold never divides by zero: in every reachable
\* state it returns a number, and while no bid has been evaluated that
\* number is 0, in AVERAGE mode too.
ThresholdDefinedAndZeroBeforeBids ==
    /\ IsFloat(get_acceptance_threshold(Stats))
    /\ number_of_bids_received = 0 => get_acceptance_threshold(Stats) = float_zero
\* AVERAGE mode, offers received and an offer sent, no bid evaluated yet.
AverageModeNothingEvaluated ==
    /\ use_average /\ number_of_bids_received = 0
    /\ received # <<>> /\ sent # <<>>
    /\ get_acceptance_threshold(Stats) = float_zero

RECURSIVE SumWeights(_, _)
SumWeights(m, k) == IF k = 0 THEN Zero ELSE RAdd(weight(m, Issues[k]), SumWeights(m, k - 1))

\* C14: after any number of opponent-model updates, zero included, every
\* estimated issue weight is non-negative and the weights sum to 1; before
\* any update all issues have the same weight.
WeightsNormalised ==
    /\ \A i \in IssueSet : RLeq(Zero, weight(opponent_model, i))
    /\ SumWeights(opponent_model, Len(Issues)) = One
    /\ received = <<>> =>
          \A i \in IssueSet : weight(opponent_model, i) = Rat(1, Len(Issues))
\* After several updates the issues no longer weigh the same.
UnequalWeightsAfterUpdates ==
    /\ Len(received) >= 3
    /\ \E i, j \in IssueSet : RLess(weight(opponent_model, i), weight(opponent_model, j))
    /\ SumWeights(opponent_model, Len(Issues)) = One

\* Number of received bids whose value for issue i is v.
TimesOffered(i, v) == Cardinality({k \in 1..Len(received) : AllBids[received[k]][i] = v})

\* C15: for every issue the value counts sum to the number of opponent bids
\* observed, each update having counted exactly the bid's value once: every
\* value's count is the number of observed bids that carry it.
CountsMatchObservedBids ==
    \A i \in IssueSet :
        /\ observed(opponent_model, i) = Len(received)
        /\ \A v \in ValueSet(i) : opponent_model.counts[i][v] = TimesOffered(i, v)
\* Four bids observed, some value of some issue seen more than once.
FourBidsCounted ==
    /\ Len(received) = MaxObserved
    /\ \E i \in IssueSet : \E v \in ValueSet(i) :
          opponent_model.counts[i][v] >= 2 /\ opponent_model.counts[i][v] < Len(received)

\* Number of consecutive pairs of received bids that differ in issue i.
TimesChanged(i) ==
    Cardinality({k \in 1..(Len(received) - 1) :
                    AllBids[received[k]][i] # AllBids[received[k + 1]][i]})

\* C16: every issue's change counter is the number of consecutive pairs of
\* opponent bids in which the issue's value differs (the first bid is no
\* change), and an issue with a strictly smaller change counter has a
\* strictly larger weight.
ChangesCountedAndWeighted ==
    /\ \A i \in IssueSet : opponent_model.changes[i] = TimesChanged(i)
    /\ \A i, j \in IssueSet :
          opponent_model.changes[i] < opponent_model.changes[j]
              => RLess(weight(opponent_model, j), weight(opponent_model, i))

\* The opponent offered (high, fast) three times, then (mid, fast).
ScenarioOffers ==
    received = <<BidOf("high", "fast"), BidOf("high", "fast"), BidOf("high", "fast"),
                 BidOf("mid", "fast")>>
\* After the scenario's offers price changed once, delivery never, and
\* delivery weighs more.
ScenarioChangeCounts ==
    /\ ScenarioOffers
    /\ opponent_model.changes["price"] = 1 /\ opponent_model.changes["delivery"] = 0
    /\ RLess(weight(opponent_model, "price"), weight(opponent_model, "delivery"))

\* C17: the predicted opponent utility of every bid lies in [0, 1] after any
\* sequence of updates, and after the scenario's offers (low, slow) is
\* predicted strictly lower than (high, fast).
PredictedUtilityInUnitRange ==
    /\ \A b \in Bids :
          /\ RLeq(Zero, get_predicted_utility(opponent_model, b))
          /\ RLeq(get_predicted_utility(opponent_model, b), One)
    /\ ScenarioOffers =>
          RLess(get_predicted_utility(opponent_model, BidOf("low", "slow")),
                get_predicted_utility(opponent_model, BidOf("high", "fast")))
\* After the scenario's offers the agent prefers (low, slow), the model (high, fast).
ScenarioRanking ==
    /\ ScenarioOffers /\ profile = 1
    /\ RLess(evaluate_bid(BidOf("high", "fast")), evaluate_bid(BidOf("low", "slow")))
    /\ RLess(get_predicted_utility(opponent_model, BidOf("low", "slow")),
             get_predicted_utility(opponent_model, BidOf("high", "fast")))

InUnitRange(x) == RLeq(Zero, x) /\ RLeq(x, One)

\* C18: querying the predicted utility before any update, as log_bid does
\* for the agent's first offer, or for a bid with a value never observed,
\* does not fail and gives a neutral score in [0, 1]: log_bid never queries
\* an absent model, every logged prediction and every bid's prediction lies
\* in [0, 1], and before any update all bids are predicted alike.
EarlyPredictionNeutral ==
    /\ bid_history # <<>> => opponent_model.created
    /\ \A k \in 1..Len(bid_history) : InUnitRange(bid_history[k].utility_opponent)
    /\ \A b \in Bids : InUnitRange(get_predicted_utility(opponent_model, b))
    /\ received = <<>> =>
          \A b1, b2 \in Bids : get_predicted_utility(opponent_model, b1)
                                  = get_predicted_utility(opponent_model, b2)
\* The agent's first offer was logged before any opponent offer arrived.
FirstOfferLoggedBeforeAnyUpdate ==
    /\ received = <<>> /\ bid_history # <<>>
    /\ bid_history[1].actor = "me" /\ bid_history[1].type = "Offer"
    /\ InUnitRange(bid_history[1].utility_opponent)

\* C20: every should_accept call on a non-null bid updates the running
\* statistics exactly once, whether it accepts, rejects or fails later on:
\* the count grows by 1, the sum by the bid's utility, and the max becomes
\* the larger of the old max and the bid's utility.
StatisticsUpdatedOncePerCall ==
    (ac_call.called /\ ac_call.bid # None) =>
        /\ number_of_bids_received = ac_call.stats_before.number_of_bids_received + 1
        /\ total_utility_received
              = float_add(ac_call.stats_before.total_utility_received, float(LastBidUtility))
        /\ max_utility_received
              = IF RLess(ac_call.stats_before.max_utility_received, LastBidUtility)
                THEN LastBidUtility ELSE ac_call.stats_before.max_utility_received
\* A second bid, below the first, was evaluated and rejected.
LowerSecondBidRejected ==
    /\ Returned /\ ~ac_call.ret
    /\ number_of_bids_received = 2
    /\ RLess(LastBidUtility, max_utility_received)

\* C19: with an empty domain the session setup fails at the Settings event
\* and no partial session starts: the session is failed, no YourTurn has
\* been handled and no action was sent.
EmptyDomainFailsSetup ==
    profile = EmptyDomain => (status = "raised" /\ turn = NoTurn /\ sent = <<>>)

\* A step in which should_accept was called on a bid and returned.
CallStep == ac_call' # ac_call /\ ac_call'.bid # None /\ ~ac_call'.raised

\* C21: the predicted-next-offer utility is computed at most once: the
\* first should_accept call that returns sets it to the self-utility of
\* find_bid() on the state of that moment; once set it never changes, and
\* should_accept does not call find_bid again.
PredictionCachedOnce ==
    [][/\ CallStep => last_predicted_bid_utility' # <<>>
       /\ (CallStep /\ ac_call'.found) =>
              /\ last_predicted_bid_utility = <<>>
              /\ last_predicted_bid_utility'
                    = evaluate_bid(find_bid(last_sent_bid, clock').bid)
       /\ last_predicted_bid_utility # <<>> =>
              /\ last_predicted_bid_utility' = last_predicted_bid_utility
              /\ ac_call' # ac_call => ~ac_call'.found
      ]_vars
\* A second bid was evaluated against the prediction cached by the first call.
SecondCallReusedCache ==
    /\ Returned /\ ~ac_call.found
    /\ ac_call.cache_before # <<>> /\ ac_call.cache_before = last_predicted_bid_utility
    /\ number_of_bids_received = 2

\* The bid of the agent's last action.
LastSent == sent[Len(sent)].bid

\* C22: if some bid's utility is within 0.05 of the target, the bid find_bid
\* returns is such a bid; otherwise, if some bid's utility is at least the
\* target, the returned bid's utility is at least the target; only when
\* there is neither is the bid taken from the whole bid space.
FallbackOrderRespected ==
    turn.kind = "offer" =>
        IF within_band(turn.target) # <<>>
        THEN RLeq(RAbs(RSub(evaluate_bid(LastSent), turn.target)), tolerance)
        ELSE IF at_least(turn.target) # <<>>
        THEN RLeq(turn.target, evaluate_bid(LastSent))
        ELSE LastSent \in Bids
\* An offer from the second tier: no bid near the target, some above it.
OfferFromBidsAboveTarget ==
    /\ turn.kind = "offer"
    /\ within_band(turn.target) = <<>> /\ at_least(turn.target) # <<>>
    /\ RLeq(turn.target, evaluate_bid(LastSent))

RECURSIVE MaxUtility(_, _)
\* The largest self-utility among the first k bids of cands (0 for none).
MaxUtility(cands, k) ==
    IF k = 0 THEN Zero ELSE RMax(MaxUtility(cands, k - 1), evaluate_bid(cands[k]))

\* C23: when no opponent bid has been received, find_bid returns a
\* candidate of maximal self-utility among the candidates, at every
\* progress and whether or not the opponent model exists.
OpeningOfferHasMaximalUtility ==
    (turn.kind = "offer" /\ ~turn.evaluated) =>
        evaluate_bid(LastSent)
            = MaxUtility(candidate_bids(turn.target), Len(candidate_bids(turn.target)))

\* C25: the target utility of get_target_utility lies between mu and 1.
TargetWithinReserveAndOne ==
    turn.kind = "offer" => (RLeq(mu, turn.target) /\ RLeq(turn.target, One))

\* The bid of the last Offer among the first k actions sent (None for none).
RECURSIVE LastOffered(_)
LastOffered(k) ==
    IF k = 0 THEN None
    ELSE IF sent[k].kind = "Offer" THEN sent[k].bid ELSE LastOffered(k - 1)

\* C27: last_sent_bid is absent while the agent has emitted no Offer, and
\* otherwise the bid of the most recent Offer it emitted; evaluating an
\* incoming offer with should_accept leaves it unchanged.
LastSentBidIsLastOffer == last_sent_bid = LastOffered(Len(sent))

\* The similarity of a bid to the last received bid.
SimilarityToReceived(bid) == compute_similarity(bid, last_received_bid)
\* bid is in cands, no candidate is more similar to the last received bid,
\* and every candidate enumerated before it is strictly less similar.
MostSimilarEarliest(cands, bid) ==
    \E k \in 1..Len(cands) :
        /\ cands[k] = bid
        /\ \A j \in 1..Len(cands) :
               RLeq(SimilarityToReceived(cands[j]), SimilarityToReceived(bid))
        /\ \A j \in 1..(k - 1) :
               RLess(SimilarityToReceived(cands[j]), SimilarityToReceived(bid))
\* Some other candidate is exactly as similar to the last received bid.
EquallySimilarOther(cands, bid) ==
    \E j \in 1..Len(cands) :
        cands[j] # bid /\ SimilarityToReceived(cands[j]) = SimilarityToReceived(bid)

\* C24: when an opponent bid has been received, the bid find_bid returns
\* for an Offer is a candidate of maximal similarity to the last received
\* bid, and among equally similar candidates the earliest in the bid-space
\* enumeration.
OfferMostSimilarToLastReceived ==
    [][(TurnStep /\ turn'.kind = "offer" /\ last_received_bid # None) =>
           MostSimilarEarliest(candidate_bids(turn'.target), sent'[Len(sent')].bid)
      ]_vars
\* An Offer just selected against the last received bid from candidates of
\* which another one is equally similar and enumerated later.
EarlierOfEquallySimilarOffered ==
    /\ turn.kind = "offer" /\ turn.evaluated
    /\ last_received_bid = received[Len(received)]
    /\ MostSimilarEarliest(candidate_bids(turn.target), LastSent)
    /\ EquallySimilarOther(candidate_bids(turn.target), LastSent)

\* A step keeps the opponent model: once created it stays created and no
\* count or change counter decreases.
ModelKept ==
    opponent_model.created =>
        /\ opponent_model'.created
        /\ \A i \in IssueSet :
              /\ opponent_model'.changes[i] >= opponent_model.changes[i]
              /\ \A v \in ValueSet(i) :
                    opponent_model'.counts[i][v] >= opponent_model.counts[i][v]

\* C26 as stated: the opponent model exists exactly from the first opponent
\* offer on (not before it, whatever the agent sent or logged), and is
\* never replaced or reset afterwards.
ModelCreatedAtFirstOpponentOffer ==
    [](opponent_model.created <=> received # <<>>) /\ [][ModelKept]_vars

\* C26, amended: the opponent model exists exactly from the first logged
\* action on (an opponent offer, the agent's own Offer or an Accept), holds
\* one observation per opponent offer received (none before the first), and
\* is never replaced or reset afterwards.
ModelCreatedAtFirstLoggedAction ==
    /\ [](opponent_model.created <=> bid_history # <<>>)
    /\ [](\A i \in IssueSet : observed(opponent_model, i) = Len(received))
    /\ [][ModelKept]_vars
\* The model exists after the agent's own Offer, before any opponent offer;
\* it has observed nothing.
ModelCreatedByOwnOffer ==
    /\ received = <<>> /\ HasOffer(sent)
    /\ opponent_model = OpponentModel

\* The step appends one entry of the given type and actor to bid_history
\* and leaves the entries before it as they were.
AppendsEntry(type, actor) ==
    /\ Len(bid_history') = Len(bid_history) + 1
    /\ SubSeq(bid_history', 1, Len(bid_history)) = bid_history
    /\ bid_history'[Len(bid_history')].type = type
    /\ bid_history'[Len(bid_history')].actor = actor
\* What a step does to bid_history: an opponent offer received and an Offer
\* emitted append their entry, with the bid's self-utility; emitting an
\* Accept appends nothing (the Accept is logged when its ActionDone
\* arrives); any other step appends an Accept entry or nothing.
LogStep ==
    IF received' # received
    THEN /\ AppendsEntry("Offer", "other")
         /\ bid_history'[Len(bid_history')].utility_self
                = evaluate_bid(received'[Len(received')])
    ELSE IF Len(sent') > Len(sent) /\ sent'[Len(sent')].kind = "Offer"
    THEN /\ AppendsEntry("Offer", "me")
         /\ bid_history'[Len(bid_history')].utility_self
                = evaluate_bid(sent'[Len(sent')].bid)
    ELSE IF Len(sent') > Len(sent)
    THEN bid_history' = bid_history
    ELSE \/ bid_history' = bid_history
         \/ AppendsEntry("Accept", "me")
         \/ AppendsEntry("Accept", "other")
\* Number of entries of bid_history of the given type and actor.
Logged(type, actor) ==
    Cardinality({k \in 1..Len(bid_history) :
                    bid_history[k].type = type /\ bid_history[k].actor = actor})
\* Number of Offers among the actions the agent emitted.
OffersSent == Cardinality({k \in 1..Len(sent) : sent[k].kind = "Offer"})

ObservationsUnchanged ==
    /\ opponent_model'.counts = opponent_model.counts
    /\ opponent_model'.changes = opponent_model.changes
    /\ opponent_model'.last = opponent_model.last
\* The step leaves the acceptance evaluator's statistics as they were.
StatisticsUnchanged ==
    /\ max_utility_received' = max_utility_received
    /\ total_utility_received' = total_utility_received
    /\ number_of_bids_received' = number_of_bids_received

\* C29: only an Offer of the opponent changes last_received_bid and what
\* the opponent model has observed; an ActionDone of the agent's own action,
\* an Accept of the opponent and an unknown event leave last_received_bid,
\* last_sent_bid, the model's counts and the acceptance statistics unchanged.
OnlyOpponentOfferChangesObservations ==
    [][/\ received' = received =>
              (last_received_bid' = last_received_bid /\ ObservationsUnchanged)
       /\ (received' = received /\ ~TurnStep) =>
              (last_sent_bid' = last_sent_bid /\ StatisticsUnchanged)
      ]_vars
\* The opponent's Accept was logged after offers of both parties and a
\* bid evaluated; last_received_bid and last_sent_bid are still those offers.
OpponentAcceptLeftStateAlone ==
    /\ bid_history # <<>>
    /\ bid_history[Len(bid_history)].type = "Accept"
    /\ bid_history[Len(bid_history)].actor = "other"
    /\ received # <<>> /\ last_received_bid = received[Len(received)]
    /\ \A i \in IssueSet : observed(opponent_model, i) = Len(received)
    /\ last_sent_bid = LastSent /\ number_of_bids_received = 1

RECURSIVE SumUtility(_, _)
\* The sum of the self-utilities of the first k bids of bids, added in
\* their order.
SumUtility(bids, k) ==
    IF k = 0 THEN float_zero
    ELSE float_add(SumUtility(bids, k - 1), float(evaluate_bid(bids[k])))

\* C30: in a session whose turns strictly alternate with the opponent's
\* offers, after each YourTurn the evaluator's count is the number of
\* opponent offers received so far, its sum the sum of their self-utilities
\* and its max their maximum: each received bid is counted exactly once.
StatisticsMatchOffersReceived ==
    [][TurnStep =>
           /\ number_of_bids_received' = Len(received)
           /\ total_utility_received' = SumUtility(received, Len(received))
           /\ max_utility_received' = MaxUtility(received, Len(received))
      ]_vars
\* Two offers of different self-utility were each followed by a turn and
\* are both in the statistics.
TwoOffersEachCountedOnce ==
    /\ Len(received) = 2 /\ Len(sent) = 2 /\ ~AgentMovedFirst
    /\ evaluate_bid(received[1]) # evaluate_bid(received[2])
    /\ number_of_bids_received = 2
    /\ total_utility_received = SumUtility(received, 2)
    /\ max_utility_received = MaxUtility(received, 2)

\* The evaluator's statistics never decrease in a step.
StatisticsAccumulate ==
    /\ number_of_bids_received' >= number_of_bids_received
    /\ RLeq(max_utility_received, max_utility_received')
\* C31: the running count and the running max never decrease and are never
\* reset, and in every reachable state 0 <= acceptance threshold <= running
\* max <= 1.0, in AVERAGE and in MAX mode.
StatisticsAccumulateThresholdBelowMax ==
    /\ [](/\ float_leq(float_zero, get_acceptance_threshold(Stats))
          /\ float_leq(get_acceptance_threshold(Stats), float(max_utility_received))
          /\ RLeq(max_utility_received, One))
    /\ [][StatisticsAccumulate]_vars

\* C32: the time condition is strict: whenever the progress is at most T,
\* exactly T included, should_accept returns true if and only if the bid's
\* utility is at least the cached predicted next offer's; the threshold
\* plays no part before progress > T.
BeforeTOnlyNextDecides ==
    (Returned /\ RLeq(ac_call.progress, T)) => (ac_call.ret <=> AC_next)
\* At progress exactly T a bid that meets the threshold but not the
\* predicted next offer was rejected.
RejectedAtExactlyT ==
    /\ Returned /\ ac_call.progress = T
    /\ AC_const /\ ~AC_next /\ ~ac_call.ret

====
